---- MODULE Spec2Model ----
(***************************************************************************)
(* Session fingerprinting and history invalidation of the Phoenix chat     *)
(* backend: get_log_hash and validate_session_and_get_config (agents.py)   *)
(* as called from chat_endpoint (main.py), over a Redis key-value store    *)
(* and the agents' in-process MemorySaver checkpointers.                   *)
(***************************************************************************)
EXTENDS Naturals, Sequences, FiniteSets, TLC

(***************************************************************************)
(* Bounds of the model.                                                    *)
(***************************************************************************)
\* chat requests received in one behaviour
MaxRequests == 2
\* entries of a telemetry record drawn for the fingerprint function
MaxLogLen == 2

\* request handlers that can be in flight at once
Procs == {"p1", "p2"}
\* caller-supplied session ids
SessionIds == {"s1", "s2"}
\* ids uuid.uuid4() hands out when the request carries no session id
Uuids == {"u1"}
ThreadIds == SessionIds \cup Uuids
\* keys and values of the telemetry records that are drawn
InputKeys == {"steps", "sleep", "note"}
LogValues == {1, 2}

(***************************************************************************)
(* Telemetry records.  A Python dict is an insertion-ordered sequence of   *)
(* <<key, value>> items with distinct keys; user_logs may also be None     *)
(* when validate_session is called directly.                               *)
(***************************************************************************)
Items == InputKeys \X LogValues

DistinctKeys(s) == \A i, j \in 1..Len(s) : i # j => s[i][1] # s[j][1]

Dicts == UNION {{s \in [1..n -> Items] : DistinctKeys(s)} : n \in 0..MaxLogLen}

None == [none |-> TRUE, items |-> <<>>]
Dict(s) == [none |-> FALSE, items |-> s]

HashInputs == {None} \cup {Dict(s) : s \in Dicts}

\* k in data
Has(data, k) == \E i \in 1..Len(data.items) : data.items[i][1] = k
\* data[k]
Lookup(data, k) == data.items[CHOOSE i \in 1..Len(data.items) : data.items[i][1] = k][2]

\* not data: None and the empty dict are falsy
Falsy(data) == data.none \/ Len(data.items) = 0

(***************************************************************************)
(* get_log_hash                                                            *)
(***************************************************************************)
lifestyle_keys == <<"steps", "sleep", "mood", "water", "period_day", "weight">>

\* Python's order on the key strings that occur
KeyOrder == <<"mood", "note", "period_day", "sleep", "steps", "water", "weight">>
KeyRank(k) == CHOOSE i \in 1..Len(KeyOrder) : KeyOrder[i] = k

\* {k: data[k] for k in lifestyle_keys if k in data}: items in lifestyle_keys order
RECURSIVE FilterFrom(_, _)
FilterFrom(data, i) ==
    IF i > Len(lifestyle_keys) THEN <<>>
    ELSE (IF Has(data, lifestyle_keys[i])
          THEN << <<lifestyle_keys[i], Lookup(data, lifestyle_keys[i])>> >>
          ELSE <<>>) \o FilterFrom(data, i + 1)

filtered_data(data) == FilterFrom(data, 1)

\* insertion of one item into a sequence sorted by key
RECURSIVE InsertSorted(_, _)
InsertSorted(item, s) ==
    IF s = <<>> THEN <<item>>
    ELSE IF KeyRank(item[1]) <= KeyRank(Head(s)[1]) THEN <<item>> \o s
    ELSE <<Head(s)>> \o InsertSorted(item, Tail(s))

\* json.dumps(d, sort_keys=True): the items of d in key order
RECURSIVE json_dumps_sorted(_)
json_dumps_sorted(s) ==
    IF s = <<>> THEN <<>>
    ELSE InsertSorted(Head(s), json_dumps_sorted(Tail(s)))

\* hashlib.md5(...).hexdigest(): a digest that stands for the bytes it was fed
md5(encoded) == [kind |-> "md5", enc |-> encoded]

empty_logs == [kind |-> "empty_logs", enc |-> <<>>]

get_log_hash(data) ==
    IF Falsy(data) THEN empty_logs
    ELSE md5(json_dumps_sorted(filtered_data(data)))

(***************************************************************************)
(* The Redis store: hash:<thread_id> holds the last fingerprint,           *)
(* checkpoint:<thread_id> an opaque conversation checkpoint.               *)
(***************************************************************************)
hash_key(thread_id) == <<"hash", thread_id>>
checkpoint_key(thread_id) == <<"checkpoint", thread_id>>
Keys == {"hash", "checkpoint"} \X ThreadIds

\* what get returns for a missing key
NoValue == [kind |-> "none", enc |-> <<>>]
\* an opaque checkpoint some writer left in the store
Blob == [kind |-> "blob", enc |-> <<>>]

\* telemetry of the chat requests that are drawn
UserLogs ==
    { Dict(<<>>),
      Dict(<< <<"steps", 1>> >>),
      Dict(<< <<"note", 1>> >>),
      Dict(<< <<"note", 1>>, <<"steps", 1>> >>) }

\* the roles of the requests that are drawn: each role has its own agent
Roles == {"user"}

\* sessions validated before the process started, and the telemetry they carried
EarlierSessions == {"s1"}
EarlierLogs == {Dict(<< <<"steps", 1>> >>)}

VARIABLES
    redis,      \* the store: key -> value or NoValue
    saver,      \* MemorySaver of each role's agent: thread_id -> turns checkpointed
    uuids,      \* uuids handed out so far
    received,   \* chat requests received so far
    pc,         \* position of each request handler
    req,        \* the ChatRequest each handler serves
    loc,        \* locals of chat_endpoint / validate_session_and_get_config
    obs,        \* what each handler has done so far (history of the call)
    logsSeen,   \* per thread id, the telemetry of the validations started on it
    last,       \* per thread id, the validation that returned most recently
    hA, hB,     \* inputs of get_log_hash called on its own
    hOutA, hOutB,
    hpc,
    nresult,    \* what agent.ainvoke gave chat_endpoint (response processing)
    ncontent,   \* response_content
    ncleaned,   \* cleaned_content
    nparsed,    \* outcome of json.loads: "none" (not reached), "ok", "fail"
    ndata,      \* data, when json.loads succeeded
    nresp,      \* the response: status and the ChatResponseItems
    npc,
    amodel,     \* Assistant.__call__: how the runnable answers
    amessages,  \* state["messages"]
    aresult,    \* result of the last self.runnable.invoke(state)
    aretries,   \* follow-up messages appended so far
    apc

hashVars == <<hA, hB, hOutA, hOutB, hpc>>
normVars == <<nresult, ncontent, ncleaned, nparsed, ndata, nresp, npc>>
asstVars == <<amodel, amessages, aresult, aretries, apc>>
vars == <<redis, saver, uuids, received, pc, req, loc, obs, logsSeen, last,
          hashVars, normVars, asstVars>>
\* what the session logic leaves alone
pureVars == <<hashVars, normVars, asstVars>>
chatVars == <<redis, saver, uuids, received, pc, req, loc, obs, logsSeen, last>>

NoReq == [role |-> "user", session_id |-> "", user_logs |-> Dict(<<>>), key_ok |-> FALSE]
NoLoc == [thread_id |-> "", current_hash |-> NoValue, stored_hash |-> NoValue,
          validated_thread_id |-> "", status |-> 0]
NoObs == [deleted |-> FALSE, pre_checkpoint |-> NoValue, store_failed |-> FALSE,
          agent_ran |-> FALSE, history_seen |-> 0]
NoLast == [called |-> FALSE, user_logs |-> Dict(<<>>), ret |-> ""]

\* Redis outlives the process: at start a caller-known session may have a
\* checkpoint and the fingerprint of an earlier validation in the store; a uuid
\* not yet handed out has neither; the MemorySavers start empty.
ChatInit ==
    /\ logsSeen \in [ThreadIds -> {{}} \cup {{l} : l \in EarlierLogs}]
    /\ \A t \in ThreadIds \ EarlierSessions : logsSeen[t] = {}
    /\ last = [t \in ThreadIds |->
                 IF logsSeen[t] = {} THEN NoLast
                 ELSE [called |-> TRUE, user_logs |-> CHOOSE l \in logsSeen[t] : TRUE,
                       ret |-> t]]
    /\ redis \in {r \in [Keys -> {NoValue, Blob} \cup {get_log_hash(l) : l \in EarlierLogs}] :
                    /\ \A t \in ThreadIds :
                         /\ r[hash_key(t)] = IF last[t].called
                                             THEN get_log_hash(last[t].user_logs)
                                             ELSE NoValue
                         /\ r[checkpoint_key(t)] \in {NoValue, Blob}
                    /\ \A u \in Uuids : r[checkpoint_key(u)] = NoValue}
    /\ saver = [role \in Roles |-> [t \in ThreadIds |-> 0]]
    /\ uuids = {}
    /\ received = 0
    /\ pc = [p \in Procs |-> "idle"]
    /\ req = [p \in Procs |-> NoReq]
    /\ loc = [p \in Procs |-> NoLoc]
    /\ obs = [p \in Procs |-> NoObs]

HashOff ==
    /\ hA = None
    /\ hB = None
    /\ hOutA = NoValue
    /\ hOutB = NoValue
    /\ hpc = "off"

\* ---- values of the response processing of chat_endpoint ----
\* a str is the sequence of its pieces; these are the pieces that occur
WS == " "
\* the three backticks of a markdown fence
Fence == "FENCE"
JsonTag == "json"
Word == "hello"

\* the JSON values json.loads can give: kind is list, dict or scalar; a list has
\* its elements, a dict is its own single element, each element with its keys
NoData == [kind |-> "none", elems |-> <<>>]
NoResult == [kind |-> "none", ctype |-> "none", text |-> <<>>, parts |-> <<>>]
NoResp == [status |-> 0, response |-> <<>>]

NormOff ==
    /\ nresult = NoResult
    /\ ncontent = <<>>
    /\ ncleaned = <<>>
    /\ nparsed = "none"
    /\ ndata = NoData
    /\ nresp = NoResp
    /\ npc = "off"

\* ---- values of Assistant.__call__ ----
NoAnswer == [tool_calls |-> FALSE, content |-> "unset"]

AsstOff ==
    /\ amodel = "off"
    /\ amessages = <<>>
    /\ aresult = NoAnswer
    /\ aretries = 0
    /\ apc = "off"

Init == ChatInit /\ HashOff /\ NormOff /\ AsstOff

(***************************************************************************)
(* chat_endpoint                                                           *)
(***************************************************************************)
\* variant: the key is compared only after the session has been validated
Reject_AfterValidation(p, r) ==
    /\ ~r.key_ok
    /\ r.session_id # ""
    /\ req' = [req EXCEPT ![p] = NoReq]
    /\ loc' = [loc EXCEPT ![p].status = 403]
    /\ pc' = [pc EXCEPT ![p] = "done"]
    /\ redis' = [redis EXCEPT ![hash_key(r.session_id)] = get_log_hash(r.user_logs),
                              ![checkpoint_key(r.session_id)] = NoValue]
    /\ UNCHANGED <<saver, uuids, obs, logsSeen, last>>

\* if api_key != settings.X_API_KEY: raise HTTPException(403), re-raised as is;
\* no other field of the request has been read
Reject(p, r) ==
    /\ ~r.key_ok
    /\ req' = [req EXCEPT ![p] = NoReq]
    /\ loc' = [loc EXCEPT ![p].status = 403]
    /\ pc' = [pc EXCEPT ![p] = "done"]
    /\ UNCHANGED <<redis, saver, uuids, obs, logsSeen, last>>

\* thread_id = request.session_id or str(uuid.uuid4()); then the first lines of
\* validate_session_and_get_config, up to the await of redis_client.get
Enter(p, r, t) ==
    /\ r.key_ok
    /\ req' = [req EXCEPT ![p] = r]
    /\ loc' = [loc EXCEPT ![p].thread_id = t,
                          ![p].current_hash = get_log_hash(r.user_logs)]
    /\ obs' = [obs EXCEPT ![p].pre_checkpoint = redis[checkpoint_key(t)]]
    /\ logsSeen' = [logsSeen EXCEPT ![t] = @ \cup {r.user_logs}]
    /\ pc' = [pc EXCEPT ![p] = "get"]

\* handlers are interchangeable: a request takes the first idle one
FirstIdle(p) == pc[p] = "idle" /\ \A q \in Procs : pc[q] = "idle" => (q = p \/ p = "p1")

Receive(p) ==
    /\ FirstIdle(p)
    /\ received < MaxRequests
    /\ received' = received + 1
    /\ \E r \in [role : Roles, session_id : SessionIds \cup {""},
                 user_logs : UserLogs, key_ok : BOOLEAN] :
        \/ Reject(p, r)
        \/ /\ r.session_id # ""
           /\ Enter(p, r, r.session_id)
           /\ UNCHANGED <<redis, saver, uuids, last>>
        \/ /\ r.session_id = ""
           /\ \E u \in Uuids \ uuids :
                /\ Enter(p, r, u)
                /\ uuids' = uuids \cup {u}
           /\ UNCHANGED <<redis, saver, last>>
    /\ UNCHANGED pureVars

(***************************************************************************)
(* validate_session_and_get_config                                         *)
(***************************************************************************)
\* variant: every stored fingerprint invalidates, equal or not
DataMismatch_AnyStored(stored_hash, current_hash) ==
    stored_hash # NoValue

\* variant: the test "if stored_hash" is left out
DataMismatch_NoTruthTest(stored_hash, current_hash) ==
    stored_hash # current_hash

\* variant: no stored fingerprint invalidates
DataMismatch_Never(stored_hash, current_hash) == FALSE

\* variant: the comparison is turned round
DataMismatch_Equal(stored_hash, current_hash) ==
    stored_hash # NoValue /\ stored_hash = current_hash

\* if stored_hash: if stored_hash != current_hash:
DataMismatch(stored_hash, current_hash) ==
    stored_hash # NoValue /\ stored_hash # current_hash

\* stored_hash = await redis_client.get(hash_key), and the branch it selects
Get(p) ==
    /\ pc[p] = "get"
    /\ LET stored_hash == redis[hash_key(loc[p].thread_id)] IN
        /\ loc' = [loc EXCEPT ![p].stored_hash = stored_hash]
        /\ pc' = [pc EXCEPT ![p] =
                    IF DataMismatch(stored_hash, loc[p].current_hash)
                    THEN "delete" ELSE "set"]
    /\ UNCHANGED <<redis, saver, uuids, received, req, obs, logsSeen, last, pureVars>>

\* variants: the store call is left out
redis_delete_skipped(r, key) == r
redis_set_skipped(r, key, value) == r

\* variant: the delete empties the store
redis_delete_all(r, key) == [k \in DOMAIN r |-> NoValue]

\* await redis_client.delete(f"checkpoint:{thread_id}")
redis_delete(r, key) == [r EXCEPT ![key] = NoValue]
\* await redis_client.set(hash_key, current_hash)
redis_set(r, key, value) == [r EXCEPT ![key] = value]

\* the mismatch branch: delete the checkpoint and return thread_id
Delete(p) ==
    /\ pc[p] = "delete"
    /\ redis' = redis_delete(redis, checkpoint_key(loc[p].thread_id))
    /\ loc' = [loc EXCEPT ![p].validated_thread_id = loc[p].thread_id]
    /\ obs' = [obs EXCEPT ![p].deleted = TRUE]
    /\ pc' = [pc EXCEPT ![p] = "agent"]
    /\ UNCHANGED <<saver, uuids, received, req, logsSeen, last, pureVars>>

\* the match and first-use branches: store current_hash and return thread_id
Set(p) ==
    /\ pc[p] = "set"
    /\ redis' = redis_set(redis, hash_key(loc[p].thread_id), loc[p].current_hash)
    /\ loc' = [loc EXCEPT ![p].validated_thread_id = loc[p].thread_id]
    /\ pc' = [pc EXCEPT ![p] = "agent"]
    /\ UNCHANGED <<saver, uuids, received, req, obs, logsSeen, last, pureVars>>

\* a store call raises (connection lost, or redis_client never bound): nothing
\* in validate_session_and_get_config catches it, chat_endpoint turns it into 500
StoreError(p) ==
    /\ pc[p] \in {"get", "delete", "set"}
    /\ loc' = [loc EXCEPT ![p].status = 500]
    /\ obs' = [obs EXCEPT ![p].store_failed = TRUE]
    /\ pc' = [pc EXCEPT ![p] = "done"]
    /\ UNCHANGED <<redis, saver, uuids, received, req, logsSeen, last, pureVars>>

(***************************************************************************)
(* the agent: a graph compiled with its own MemorySaver, keyed by thread_id*)
(***************************************************************************)
Returned(p) ==
    [called |-> TRUE, user_logs |-> req[p].user_logs, ret |-> loc[p].validated_thread_id]

\* result = await agent.ainvoke(input_state, config): the history checkpointed
\* under thread_id is loaded, the turn is added to it and saved
AgentInvoke(p) ==
    /\ pc[p] = "agent"
    /\ LET t == loc[p].validated_thread_id
           role == req[p].role IN
        /\ obs' = [obs EXCEPT ![p].agent_ran = TRUE,
                              ![p].history_seen = saver[role][t]]
        /\ saver' = [saver EXCEPT ![role][t] = @ + 1]
    /\ loc' = [loc EXCEPT ![p].status = 200]
    /\ last' = [last EXCEPT ![loc[p].thread_id] = Returned(p)]
    /\ pc' = [pc EXCEPT ![p] = "done"]
    /\ UNCHANGED <<redis, uuids, received, req, logsSeen, pureVars>>

\* the agent (the model or a tool) raises: except Exception -> HTTPException(500)
AgentError(p) ==
    /\ pc[p] = "agent"
    /\ loc' = [loc EXCEPT ![p].status = 500]
    /\ last' = [last EXCEPT ![loc[p].thread_id] = Returned(p)]
    /\ pc' = [pc EXCEPT ![p] = "done"]
    /\ UNCHANGED <<redis, saver, uuids, received, req, obs, logsSeen, pureVars>>

\* the response (or the HTTP error) is sent and the handler ends
Respond(p) ==
    /\ pc[p] = "done"
    /\ pc' = [pc EXCEPT ![p] = "idle"]
    /\ req' = [req EXCEPT ![p] = NoReq]
    /\ loc' = [loc EXCEPT ![p] = NoLoc]
    /\ obs' = [obs EXCEPT ![p] = NoObs]
    /\ UNCHANGED <<redis, saver, uuids, received, logsSeen, last, pureVars>>

\* requests are served concurrently: every await is a suspension point
Next ==
    \/ \E p \in Procs : Receive(p)
    \/ \E p \in Procs : Get(p)
    \/ \E p \in Procs : Delete(p)
    \/ \E p \in Procs : Set(p)
    \/ \E p \in Procs : StoreError(p)
    \/ \E p \in Procs : AgentInvoke(p)
    \/ \E p \in Procs : AgentError(p)
    \/ \E p \in Procs : Respond(p)

Spec == Init /\ [][Next]_vars

\* one request at a time: a request is received only when no other is in flight
AllIdle == \A p \in Procs : pc[p] = "idle"

ReceiveNext(p) == AllIdle /\ Receive(p)

SeqNext ==
    \/ \E p \in Procs : ReceiveNext(p)
    \/ \E p \in Procs : Get(p)
    \/ \E p \in Procs : Delete(p)
    \/ \E p \in Procs : Set(p)
    \/ \E p \in Procs : StoreError(p)
    \/ \E p \in Procs : AgentInvoke(p)
    \/ \E p \in Procs : AgentError(p)
    \/ \E p \in Procs : Respond(p)

SeqSpec == Init /\ [][SeqNext]_vars

(***************************************************************************)
(* get_log_hash called on two records                                      *)
(***************************************************************************)
HashInit ==
    /\ ChatInit
    /\ \A t \in ThreadIds : redis[checkpoint_key(t)] = NoValue /\ logsSeen[t] = {}
    /\ hA \in HashInputs
    /\ hB \in HashInputs
    /\ hOutA = NoValue
    /\ hOutB = NoValue
    /\ hpc = "a"
    /\ NormOff
    /\ AsstOff

HashA ==
    /\ hpc = "a"
    /\ hOutA' = get_log_hash(hA)
    /\ hpc' = "b"
    /\ UNCHANGED <<hA, hB, hOutB, chatVars, normVars, asstVars>>

HashB ==
    /\ hpc = "b"
    /\ hOutB' = get_log_hash(hB)
    /\ hpc' = "done"
    /\ UNCHANGED <<hA, hB, hOutA, chatVars, normVars, asstVars>>

HashNext == HashA \/ HashB

HashSpec == HashInit /\ [][HashNext]_vars

(***************************************************************************)
(* Response processing of chat_endpoint: from the result of agent.ainvoke  *)
(* to the ChatResponse                                                     *)
(***************************************************************************)
\* parts of a multi-part content drawn for one reply
MaxParts == 2

Element(isdict, keys) == [isdict |-> isdict, keys |-> keys]
List(elems) == [kind |-> "list", elems |-> elems]
Object(keys) == [kind |-> "dict", elems |-> <<Element(TRUE, keys)>>]
Scalar == [kind |-> "scalar", elems |-> <<>>]

\* the JSON texts that occur, each one piece of a str, and what json.loads
\* gives for it; where present, "message" is "hi" and "type" is "tip"
JsonText ==
    "[]" :> List(<<>>)
    @@ "[{message,type}]" :> List(<<Element(TRUE, {"message", "type"})>>)
    @@ "[{message,phase},{type,data}]" :>
          List(<<Element(TRUE, {"message", "phase"}), Element(TRUE, {"type", "data"})>>)
    @@ "[1]" :> List(<<Element(FALSE, {})>>)
    @@ "{message,type,data}" :> Object({"message", "type", "data"})
    @@ "{message}" :> Object({"message"})
    @@ "42" :> Scalar
    @@ "null" :> Scalar

\* str.strip(): leading and trailing whitespace removed
RECURSIVE lstrip(_)
lstrip(s) == IF s # <<>> /\ Head(s) = WS THEN lstrip(Tail(s)) ELSE s
RECURSIVE rstrip(_)
rstrip(s) == IF s # <<>> /\ s[Len(s)] = WS THEN rstrip(SubSeq(s, 1, Len(s) - 1)) ELSE s
strip(s) == rstrip(lstrip(s))

\* re.sub(r"^```json\s*|\s*```$", "", s): the first alternative at the start,
\* the second at the end
sub_leading(s) ==
    IF Len(s) >= 2 /\ s[1] = Fence /\ s[2] = JsonTag
    THEN lstrip(SubSeq(s, 3, Len(s))) ELSE s
sub_trailing(s) ==
    IF s # <<>> /\ s[Len(s)] = Fence
    THEN rstrip(SubSeq(s, 1, Len(s) - 1)) ELSE s
re_sub(s) == sub_trailing(sub_leading(s))

\* json.loads: one JSON text, whitespace around it allowed; else JSONDecodeError
json_loads(s) ==
    IF Len(strip(s)) = 1 /\ strip(s)[1] \in DOMAIN JsonText
    THEN [ok |-> TRUE, data |-> JsonText[strip(s)[1]]]
    ELSE [ok |-> FALSE, data |-> NoData]

\* ChatResponseItem; data None, the dict of a "data" field, or a dict of phase,
\* focus_habit and action (has: those that are not None)
NullData == [kind |-> "null", has |-> {}]
ChatResponseItem(message, type, data) == [message |-> message, type |-> type, data |-> data]

\* item.get("message", ""), item.get("type", "text")
get_message(el) == IF "message" \in el.keys THEN <<"hi">> ELSE <<>>
get_type(el) == IF "type" \in el.keys THEN "tip" ELSE "text"
\* data={"phase": item.get("phase"), "focus_habit": ..., "action": ...}
list_item_data(el) ==
    [kind |-> "dict3", has |-> el.keys \cap {"phase", "focus_habit", "action"}]
\* data=data.get("data")
dict_item_data(el) ==
    IF "data" \in el.keys THEN [kind |-> "data", has |-> {}] ELSE NullData

process_data_into_items(data) ==
    IF data.kind = "list"
    THEN [i \in 1..Len(data.elems) |->
            ChatResponseItem(get_message(data.elems[i]), get_type(data.elems[i]),
                             list_item_data(data.elems[i]))]
    ELSE IF data.kind = "dict"
    THEN <<ChatResponseItem(get_message(data.elems[1]), get_type(data.elems[1]),
                            dict_item_data(data.elems[1]))>>
    ELSE <<>>

\* item.get on a list element that is no dict: AttributeError
process_raises(data) ==
    data.kind = "list" /\ \E i \in 1..Len(data.elems) : ~data.elems[i].isdict

\* one part of a multi-part content: a dict block, with or without "text", or
\* anything else, taken by its str()
Part(isdict, hastext, text) == [isdict |-> isdict, hastext |-> hastext, text |-> text]
\* str(b.get("text", b)) if isinstance(b, dict) else str(b)
part_str(b) ==
    IF b.isdict /\ ~b.hastext THEN <<"{'type': 'image'}">> ELSE b.text

\* " ".join([...])
RECURSIVE join(_)
join(parts) ==
    IF parts = <<>> THEN <<>>
    ELSE IF Len(parts) = 1 THEN part_str(parts[1])
    ELSE part_str(parts[1]) \o <<WS>> \o join(Tail(parts))

\* variant: only None counts as no content
not_content_none_only(ctype, c) == ctype = "none"

\* if not response_content: None and "" are falsy
not_content(ctype, c) == ctype = "none" \/ c = <<>>

\* the replies that are drawn
Prefixes == {<<>>, <<WS>>, <<Fence>>, <<Fence, WS>>, <<Fence, JsonTag>>, <<Fence, JsonTag, WS>>}
Bodies == {<<>>, <<Word>>, <<Word, WS, Word>>} \cup {<<v>> : v \in DOMAIN JsonText}
Suffixes == {<<>>, <<WS>>, <<Fence>>, <<WS, Fence>>, <<WS, Fence, WS>>}
Strs == {pre \o body \o suf : pre \in Prefixes, body \in Bodies, suf \in Suffixes}

PartChoices ==
    { Part(FALSE, FALSE, <<>>), Part(FALSE, FALSE, <<Word>>),
      Part(TRUE, TRUE, <<>>), Part(TRUE, TRUE, <<"{message}">>),
      Part(TRUE, FALSE, <<>>) }
PartLists == UNION {[1..n -> PartChoices] : n \in 0..MaxParts}

Results ==
    { [kind |-> "raise", ctype |-> "none", text |-> <<>>, parts |-> <<>>],
      [kind |-> "no_messages", ctype |-> "none", text |-> <<>>, parts |-> <<>>],
      [kind |-> "message", ctype |-> "none", text |-> <<>>, parts |-> <<>>] }
    \cup {[kind |-> "message", ctype |-> "str", text |-> t, parts |-> <<>>] : t \in Strs}
    \cup {[kind |-> "message", ctype |-> "list", text |-> <<>>, parts |-> ps] : ps \in PartLists}

NormInit ==
    /\ ChatInit
    /\ \A t \in ThreadIds : redis[checkpoint_key(t)] = NoValue /\ logsSeen[t] = {}
    /\ HashOff
    /\ AsstOff
    /\ nresult \in Results
    /\ ncontent = <<>>
    /\ ncleaned = <<>>
    /\ nparsed = "none"
    /\ ndata = NoData
    /\ nresp = NoResp
    /\ npc = "invoke"

\* result = await agent.ainvoke(...); last_msg; if not last_msg: "No response"
NormInvoke ==
    /\ npc = "invoke"
    /\ \/ /\ nresult.kind = "raise"
          /\ nresp' = [status |-> 500, response |-> <<>>]
          /\ npc' = "done"
       \/ /\ nresult.kind = "no_messages"
          /\ nresp' = [status |-> 200, response |->
                        <<ChatResponseItem(<<"No response">>, "error", NullData)>>]
          /\ npc' = "done"
       \/ /\ nresult.kind = "message"
          /\ nresp' = nresp
          /\ npc' = "join"
    /\ UNCHANGED <<nresult, ncontent, ncleaned, nparsed, ndata, chatVars, hashVars, asstVars>>

\* response_content = last_msg.content, joined when it is a list;
\* if not response_content: "Empty response"
NormJoin ==
    /\ npc = "join"
    /\ LET c == IF nresult.ctype = "list" THEN join(nresult.parts) ELSE nresult.text IN
        \/ /\ not_content(nresult.ctype, c)
           /\ nresp' = [status |-> 200, response |->
                         <<ChatResponseItem(<<"Empty response">>, "error", NullData)>>]
           /\ npc' = "done"
           /\ ncontent' = ncontent
        \/ /\ ~not_content(nresult.ctype, c)
           /\ ncontent' = c
           /\ nresp' = nresp
           /\ npc' = "clean"
    /\ UNCHANGED <<nresult, ncleaned, nparsed, ndata, chatVars, hashVars, asstVars>>

\* cleaned_content = re.sub(..., "", response_content.strip()).strip()
NormClean ==
    /\ npc = "clean"
    /\ ncleaned' = strip(re_sub(strip(ncontent)))
    /\ npc' = "parse"
    /\ UNCHANGED <<nresult, ncontent, nparsed, ndata, nresp, chatVars, hashVars, asstVars>>

\* data = json.loads(cleaned_content); process_data_into_items(data);
\* except json.JSONDecodeError: one text item; except Exception: 500
NormParse ==
    /\ npc = "parse"
    /\ LET r == json_loads(ncleaned) IN
        \/ /\ r.ok /\ ~process_raises(r.data)
           /\ nparsed' = "ok"
           /\ ndata' = r.data
           /\ nresp' = [status |-> 200, response |-> process_data_into_items(r.data)]
        \/ /\ r.ok /\ process_raises(r.data)
           /\ nparsed' = "ok"
           /\ ndata' = r.data
           /\ nresp' = [status |-> 500, response |-> <<>>]
        \/ /\ ~r.ok
           /\ nparsed' = "fail"
           /\ ndata' = ndata
           /\ nresp' = [status |-> 200, response |->
                         <<ChatResponseItem(ncontent, "text", NullData)>>]
    /\ npc' = "done"
    /\ UNCHANGED <<nresult, ncontent, ncleaned, chatVars, hashVars, asstVars>>

NormNext == NormInvoke \/ NormJoin \/ NormClean \/ NormParse

NormSpec == NormInit /\ [][NormNext]_vars

(***************************************************************************)
(* Assistant.__call__: the assistant node of the graph                     *)
(***************************************************************************)
\* follow-up messages after which the model explores no further
MaxRetries == 3

\* what the runnable can answer: tool calls or none; content "", [] or a text
Answers == [tool_calls : BOOLEAN, content : {"", "[]", "text"}]

\* not result.content: "" and [] are falsy
content_falsy(content) == content \in {"", "[]"}

\* variant: tool calls are not looked at
RetryNeeded_ContentOnly(result) ==
    content_falsy(result.content) \/ result.content = ""

\* if not result.tool_calls and (not result.content or result.content == "")
RetryNeeded(result) ==
    ~result.tool_calls /\ (content_falsy(result.content) \/ result.content = "")

\* the models that are drawn: one that answers anything, one that never
\* answers with tool calls or content
Models == {"any", "always_empty"}
AnswersOf(model) ==
    IF model = "always_empty"
    THEN {a \in Answers : ~a.tool_calls /\ content_falsy(a.content)}
    ELSE Answers

\* state["messages"] at the call
InitialMessages == {<<"human">>, <<"human", "ai", "tool">>}
FollowUp == "Analyze the user's mood and sleep logs and give me a summary."

AsstInit ==
    /\ ChatInit
    /\ \A t \in ThreadIds : redis[checkpoint_key(t)] = NoValue /\ logsSeen[t] = {}
    /\ HashOff
    /\ NormOff
    /\ amodel \in Models
    /\ amessages \in InitialMessages
    /\ aresult = NoAnswer
    /\ aretries = 0
    /\ apc = "invoke"

\* result = self.runnable.invoke(state)
AsstInvoke ==
    /\ apc = "invoke"
    /\ aresult' \in AnswersOf(amodel)
    /\ apc' = "test"
    /\ UNCHANGED <<amodel, amessages, aretries, chatVars, hashVars, normVars>>

\* the if branch: one message appended to state["messages"], then the loop
\* runs again
AsstRetry ==
    /\ apc = "test"
    /\ RetryNeeded(aresult)
    /\ aretries < MaxRetries
    /\ amessages' = Append(amessages, FollowUp)
    /\ aretries' = aretries + 1
    /\ apc' = "invoke"
    /\ UNCHANGED <<amodel, aresult, chatVars, hashVars, normVars>>

\* else: break; return {"messages": result}
AsstReturn ==
    /\ apc = "test"
    /\ ~RetryNeeded(aresult)
    /\ apc' = "returned"
    /\ UNCHANGED <<amodel, amessages, aresult, aretries, chatVars, hashVars, normVars>>

AsstNext == AsstInvoke \/ AsstRetry \/ AsstReturn

AsstSpec == AsstInit /\ [][AsstNext]_vars

(***************************************************************************)
(* Properties of validate_session_and_get_config, one request at a time    *)
(***************************************************************************)
\* validate_session_and_get_config has returned to handler p, which has not
\* yet gone on to the agent
ValidationReturned(p) == pc[p] = "agent"

ThreadOf(p) == loc[p].thread_id
FingerprintOf(p) == get_log_hash(req[p].user_logs)

\* the branch the call of handler p took, by the fingerprint it read
ReadMismatch(p) ==
    loc[p].stored_hash # NoValue /\ loc[p].stored_hash # FingerprintOf(p)
ReadMatch(p) == loc[p].stored_hash = FingerprintOf(p)
ReadNothing(p) == loc[p].stored_hash = NoValue

\* C1: a validation that follows, with no write in between, a validation of
\* the same session id with the same telemetry returns the same id and does
\* not delete checkpoint:<id>.
C1_Idempotent ==
    \A p \in Procs :
        (/\ ValidationReturned(p)
         /\ last[ThreadOf(p)].called
         /\ last[ThreadOf(p)].user_logs = req[p].user_logs)
        => (/\ loc[p].validated_thread_id = last[ThreadOf(p)].ret
            /\ ~obs[p].deleted)

\* C2: when a validation returns, hash:<id> holds the fingerprint of its
\* telemetry; so between requests the stored fingerprint of a session is the
\* fingerprint of the telemetry of its most recent validation.
C2_StoredIsLatest ==
    /\ \A p \in Procs :
        ValidationReturned(p) => redis[hash_key(ThreadOf(p))] = FingerprintOf(p)
    /\ AllIdle =>
        \A t \in ThreadIds :
            last[t].called => redis[hash_key(t)] = get_log_hash(last[t].user_logs)

C4_MatchKeeps ==
    \A p \in Procs :
        (ValidationReturned(p) /\ ReadMatch(p))
        => (/\ loc[p].validated_thread_id = ThreadOf(p)
            /\ ~obs[p].deleted
            /\ redis[checkpoint_key(ThreadOf(p))] = obs[p].pre_checkpoint
            /\ redis[hash_key(ThreadOf(p))] = FingerprintOf(p))

C4_Witness ==
    \E p \in Procs :
        /\ ValidationReturned(p)
        /\ ReadMatch(p)
        /\ obs[p].pre_checkpoint = Blob
        /\ redis[checkpoint_key(ThreadOf(p))] = Blob

\* C5: a validation that found no value at hash:<id> returns the id it was
\* given, does not delete checkpoint:<id>, and the store then holds the
\* fingerprint of its telemetry at hash:<id>.
C5_FirstUseStores ==
    \A p \in Procs :
        (ValidationReturned(p) /\ ReadNothing(p))
        => (/\ loc[p].validated_thread_id = ThreadOf(p)
            /\ ~obs[p].deleted
            /\ redis[checkpoint_key(ThreadOf(p))] = obs[p].pre_checkpoint
            /\ redis[hash_key(ThreadOf(p))] = FingerprintOf(p))

C5_Witness ==
    \E p \in Procs :
        /\ ValidationReturned(p)
        /\ ReadNothing(p)
        /\ obs[p].pre_checkpoint = Blob
        /\ redis[hash_key(ThreadOf(p))] = FingerprintOf(p)
        /\ FingerprintOf(p) # empty_logs

\* C6: the agent invocation that follows a validation which took the mismatch
\* branch reads no message history of earlier turns of that session id.
C6_MismatchResetsAgent ==
    \A p \in Procs :
        (obs[p].agent_ran /\ obs[p].deleted) => obs[p].history_seen = 0

(***************************************************************************)
(* Properties of get_log_hash                                              *)
(***************************************************************************)
\* the allow-listed key/value pairs of a record, as a mapping (no order)
Projection(data) ==
    {data.items[i] : i \in {j \in 1..Len(data.items) :
        \E k \in 1..Len(lifestyle_keys) : lifestyle_keys[k] = data.items[j][1]}}

\* C7: two records with the same projection onto the allow-listed keys (the
\* empty record and records with only other keys included) have the same
\* fingerprint, whatever their insertion order.
C7_ProjectionDecides ==
    hpc = "done" => (Projection(hA) = Projection(hB) => hOutA = hOutB)

\* C8: in a run of validations on one session id whose telemetry records all
\* have the same projection onto the allow-listed keys, checkpoint:<id> is
\* never deleted.
C8_SameProjectionKeeps ==
    \A p \in Procs :
        obs[p].deleted =>
            Cardinality({Projection(l) : l \in logsSeen[ThreadOf(p)]}) > 1

\* C9: the fingerprint of an empty or null record is the sentinel, and on a
\* session id that started with no stored fingerprint and has only ever been
\* validated with empty telemetry, no call, in any interleaving, deletes
\* checkpoint:<id>.
C9_SentinelNeverInvalidates ==
    /\ \A d \in {None, Dict(<<>>)} : get_log_hash(d) = empty_logs
    /\ \A p \in Procs :
        (pc[p] \in {"get", "delete", "set", "agent", "done"}
         /\ ThreadOf(p) \in ThreadIds
         /\ logsSeen[ThreadOf(p)] \subseteq {Dict(<<>>)})
        => (pc[p] # "delete" /\ ~obs[p].deleted)

C9_Witness ==
    \E p, q \in Procs :
        /\ p # q
        /\ ThreadOf(p) = ThreadOf(q)
        /\ ThreadOf(p) \in ThreadIds
        /\ logsSeen[ThreadOf(p)] = {Dict(<<>>)}
        /\ ValidationReturned(p)
        /\ loc[p].stored_hash = empty_logs
        /\ pc[q] \in {"set", "agent"}
        /\ obs[p].pre_checkpoint = Blob
        /\ redis[checkpoint_key(ThreadOf(p))] = Blob

\* C10: a request whose store call failed still gets its session id back from
\* validation, goes on to the agent and is answered normally, never with an
\* error response.
C10_StoreFailureAbsorbed ==
    \A p \in Procs :
        (pc[p] = "done" /\ obs[p].store_failed)
        => (/\ loc[p].status = 200
            /\ obs[p].agent_ran
            /\ loc[p].validated_thread_id = ThreadOf(p))

(***************************************************************************)
(* Properties of the response processing                                   *)
(***************************************************************************)
\* the request has been answered
NormDone == npc = "done"

\* the last message's content as a str, parts joined
ContentOf(result) ==
    IF result.ctype = "list" THEN join(result.parts) ELSE result.text

\* the agent returned a last message with content other than None
NonNullReply == nresult.kind = "message" /\ nresult.ctype # "none"

\* no last message, or one whose content is None, "" or parts reducing to ""
EmptyReply ==
    \/ nresult.kind = "no_messages"
    \/ nresult.kind = "message" /\ nresult.ctype = "none"
    \/ nresult.kind = "message" /\ ContentOf(nresult) = <<>>

\* C11: every answered request whose agent reply is not null gets a normal
\* response holding at least one item, whatever the cleaned text is: plain
\* text, a JSON object, a JSON array (empty or with non-object elements) or a
\* JSON scalar.
C11_NeverEmpty ==
    (NormDone /\ NonNullReply)
    => (nresp.status = 200 /\ Len(nresp.response) >= 1)

\* the data the contract gives a list element: from phase, focus_habit and
\* action if any is present, else the "data" field, else None
ContractListData(el) ==
    IF el.keys \cap {"phase", "focus_habit", "action"} # {}
    THEN [kind |-> "dict3", has |-> el.keys \cap {"phase", "focus_habit", "action"}]
    ELSE IF "data" \in el.keys THEN [kind |-> "data", has |-> {}]
    ELSE NullData

\* C12: when the reply parses to a JSON list, each element becomes one item
\* whose data is built from phase, focus_habit and action if any is present,
\* else is the element's data field, else is null.
C12_ListItemData ==
    (NormDone /\ nparsed = "ok" /\ ndata.kind = "list" /\ nresp.status = 200)
    => (/\ Len(nresp.response) = Len(ndata.elems)
        /\ \A i \in 1..Len(ndata.elems) :
              nresp.response[i].data = ContractListData(ndata.elems[i]))

\* C13: when the agent invocation raises, the caller gets a normal response
\* whose items are exactly one item of type "error".
C13_UpstreamFailureIsErrorItem ==
    (NormDone /\ nresult.kind = "raise")
    => (/\ nresp.status = 200
        /\ Len(nresp.response) = 1
        /\ nresp.response[1].type = "error")

\* C14: when the cleaned reply is not valid JSON, the response is exactly one
\* item of type "text" whose message is the cleaned string, and the request
\* does not fail.
C14_FallbackIsCleaned ==
    (NormDone /\ nparsed = "fail")
    => (/\ nresp.status = 200
        /\ nresp.response = <<ChatResponseItem(ncleaned, "text", NullData)>>)

\* C15: an empty reply never reaches the JSON parse and is answered with
\* exactly one item, of type "error" and message "No response" or "Empty
\* response".
C15_EmptyReplyIsErrorItem ==
    EmptyReply
    => (/\ npc \in {"invoke", "join", "done"}
        /\ NormDone
           => (/\ nresp.status = 200
               /\ Len(nresp.response) = 1
               /\ nresp.response[1].type = "error"
               /\ nresp.response[1].message \in {<<"No response">>, <<"Empty response">>}
               /\ nresp.response[1].data = NullData))

C15_Witness ==
    /\ NormDone
    /\ nresult.kind = "message"
    /\ nresult.ctype = "list"
    /\ Len(nresult.parts) = 1
    /\ nresult.parts[1].isdict
    /\ ContentOf(nresult) = <<>>
    /\ nresp.response = <<ChatResponseItem(<<"Empty response">>, "error", NullData)>>

\* a str that opens with a fence, with or without the json tag, and closes
\* with a fence, around one JSON array or object
FencedJson(s) ==
    \E pre \in {<<Fence>>, <<Fence, WS>>, <<Fence, JsonTag>>, <<Fence, JsonTag, WS>>},
       suf \in {<<Fence>>, <<WS, Fence>>},
       v \in DOMAIN JsonText :
        /\ JsonText[v].kind \in {"list", "dict"}
        /\ s = pre \o <<v>> \o suf

\* C18: a reply that is a JSON array or object inside a fence, tagged json or
\* not, has both fence markers removed before the parse and is parsed as JSON
\* instead of falling back to a text item.
C18_FencesStripped ==
    (NormDone /\ nresult.kind = "message" /\ nresult.ctype = "str"
     /\ FencedJson(nresult.text))
    => (/\ nparsed = "ok"
        /\ json_loads(ncleaned).ok
        /\ \A i \in 1..Len(ncleaned) : ncleaned[i] # Fence)

(***************************************************************************)
(* Properties of Assistant.__call__                                        *)
(***************************************************************************)
\* a result with no tool calls and empty content
EmptyAnswer(result) == ~result.tool_calls /\ result.content \in {"", "[]"}

\* the messages are the initial ones followed by one follow-up per retry
OneFollowUpPerRetry ==
    /\ Len(amessages) >= aretries + 1
    /\ SubSeq(amessages, 1, Len(amessages) - aretries) \in InitialMessages
    /\ \A i \in 1..Len(amessages) :
          i > Len(amessages) - aretries => amessages[i] = FollowUp

\* C17: the Assistant step re-invokes the model, with one more follow-up
\* message each time, whenever the result has no tool calls and empty
\* content, however many times that has happened before; it returns exactly
\* when a result has tool calls or non-empty content, and never against a model
\* that always answers empty.
C17_RetryUnbounded ==
    /\ [](apc \in {"invoke", "test", "returned"} => OneFollowUpPerRetry)
    /\ [](apc = "returned" => ~EmptyAnswer(aresult))
    /\ [](amodel = "always_empty" => apc # "returned")
    /\ [](apc = "test" /\ aretries < MaxRetries
            => (ENABLED AsstRetry <=> EmptyAnswer(aresult)))
    /\ [][apc = "test"
            => IF EmptyAnswer(aresult)
               THEN /\ apc' = "invoke"
                    /\ aretries' = aretries + 1
                    /\ amessages' = Append(amessages, FollowUp)
               ELSE /\ apc' = "returned"
                    /\ aresult' = aresult]_vars

C17_Witness ==
    /\ amodel = "always_empty"
    /\ apc = "test"
    /\ aretries = MaxRetries
    /\ EmptyAnswer(aresult)
    /\ Len(amessages) = 3 + MaxRetries

(***************************************************************************)
(* Properties of validate_session_and_get_config under concurrent requests *)
(***************************************************************************)
\* handler p's validation ran to its return: no store call of it failed and
\* the request was not rejected
ValidationCompleted(p) ==
    pc[p] \in {"agent", "done"} /\ ~obs[p].store_failed /\ ThreadOf(p) \in ThreadIds

\* a step of handler p's validation that is its set, or its delete
SetStep(p) == pc[p] = "set" /\ pc'[p] = "agent"
DeleteStep(p) == pc[p] = "delete" /\ pc'[p] = "agent"

\* C16: with validations of one session id interleaved at their store calls,
\* hash:<id> only ever changes to the fingerprint written by the set that has
\* just executed, checkpoint:<id> is only ever removed by the delete of a call
\* that read a stored fingerprint different from its own, and every call that
\* read one has deleted it when it returns, every other call has not; two calls
\* can both read the same old fingerprint and both delete.
C16_AcceptedRace ==
    /\ [](\A p \in Procs :
            ValidationCompleted(p) => (obs[p].deleted <=> ReadMismatch(p)))
    /\ [][\A t \in ThreadIds :
            /\ redis'[hash_key(t)] # redis[hash_key(t)]
               => \E p \in Procs :
                    /\ SetStep(p)
                    /\ ThreadOf(p) = t
                    /\ redis'[hash_key(t)] = FingerprintOf(p)
            /\ redis'[checkpoint_key(t)] # redis[checkpoint_key(t)]
               => \E p \in Procs :
                    /\ DeleteStep(p)
                    /\ ThreadOf(p) = t
                    /\ ReadMismatch(p)
                    /\ redis'[checkpoint_key(t)] = NoValue]_vars

C16_Witness ==
    \E p, q \in Procs :
        /\ p # q
        /\ ThreadOf(p) = ThreadOf(q)
        /\ ValidationCompleted(p)
        /\ ValidationCompleted(q)
        /\ loc[p].stored_hash = loc[q].stored_hash
        /\ ReadMismatch(p)
        /\ ReadMismatch(q)
        /\ obs[p].deleted
        /\ obs[q].deleted
        /\ obs[p].pre_checkpoint = Blob
        /\ obs[q].pre_checkpoint = Blob
        /\ redis[checkpoint_key(ThreadOf(p))] = NoValue
        /\ redis[hash_key(ThreadOf(p))] = loc[p].stored_hash

C20_OwnKeysOnly ==
    [][\A k \in Keys :
        redis'[k] # redis[k]
        => \E p \in Procs :
            \/ /\ SetStep(p)
               /\ k = hash_key(ThreadOf(p))
               /\ redis'[k] # NoValue
            \/ /\ DeleteStep(p)
               /\ k = checkpoint_key(ThreadOf(p))
               /\ redis'[k] = NoValue]_vars

C20_Witness ==
    \E p, q \in Procs :
        /\ ThreadOf(p) \in ThreadIds
        /\ ThreadOf(q) \in ThreadIds
        /\ ThreadOf(p) # ThreadOf(q)
        /\ ValidationCompleted(p)
        /\ obs[p].deleted
        /\ obs[p].pre_checkpoint = Blob
        /\ pc[q] = "agent"
        /\ ReadNothing(q)
        /\ redis[hash_key(ThreadOf(q))] = FingerprintOf(q)
        /\ redis[checkpoint_key(ThreadOf(q))] = Blob
        /\ redis[hash_key(ThreadOf(p))] = loc[p].stored_hash

(***************************************************************************)
(* Properties of the x-api-key test of chat_endpoint                       *)
(***************************************************************************)
\* handler p holds a request whose key was not the configured one
BadKey(p) == pc[p] # "idle" /\ ~req[p].key_ok

\* a step in which handler p takes a request and answers it at once
RejectStep(p) == pc[p] = "idle" /\ pc'[p] = "done"

\* C21: a request with a wrong x-api-key is answered 403 in the step that
\* takes it: its handler never starts a validation, calls the store or invokes
\* the agent, and that step leaves every hash:<id>, every checkpoint:<id> and
\* the agents' histories as they were; only requests with the right key get
\* any further.
C21_RejectedLeavesAllUnchanged ==
    /\ [](\A p \in Procs :
            /\ BadKey(p)
               => (/\ pc[p] = "done"
                   /\ loc[p].status = 403
                   /\ loc[p].thread_id = ""
                   /\ loc[p].validated_thread_id = ""
                   /\ obs[p] = NoObs)
            /\ loc[p].status = 403 => BadKey(p))
    /\ [][\A p \in Procs :
            /\ RejectStep(p)
               => (/\ loc'[p].status = 403
                   /\ redis' = redis
                   /\ saver' = saver
                   /\ uuids' = uuids
                   /\ logsSeen' = logsSeen
                   /\ last' = last)
            /\ (pc[p] = "idle" /\ pc'[p] \notin {"idle", "done"})
               => req'[p].key_ok]_vars

C21_Witness ==
    \E p, q \in Procs :
        /\ p # q
        /\ BadKey(p)
        /\ loc[p].status = 403
        /\ pc[q] \in {"get", "delete", "set"}
        /\ req[q].key_ok
        /\ redis[hash_key(ThreadOf(q))] # NoValue
        /\ redis[checkpoint_key(ThreadOf(q))] = Blob

====
